---- MODULE Spec2Model ----
(***************************************************************************)
(* Keccak / SHA-3 gadget of o1js (src/unnamed/part_000, lines 95-677).     *)
(*                                                                         *)
(* Representation.                                                         *)
(*  - A lane (a Field holding a 64-bit word) is the set of its bit         *)
(*    positions that are 1, a subset of 0..63.                             *)
(*  - A byte-sized circuit value is a record [id, val]: val is the value   *)
(*    the honest prover computes, id names the circuit variable            *)
(*    (id > 0: witnessed by existsOne, numbered in creation order;         *)
(*     id < 0: a variable supplied by the caller; id = 0: a constant).     *)
(*  - A state is a 5-tuple of 5-tuples of lanes; At(state, x, y) is        *)
(*    state[x][y] of the source (0-based).                                 *)
(*  - The constraint system a call builds is a record, see EmptyCircuit.   *)
(***************************************************************************)
EXTENDS Integers, Sequences, FiniteSets, TLC

\* ------------------------------------------------------------------------
\* KECCAK CONSTANTS
\* ------------------------------------------------------------------------

KECCAK_DIM == 5

KECCAK_ELL == 6

KECCAK_WORD == 2 ^ KECCAK_ELL

BYTES_PER_WORD == KECCAK_WORD \div 8

KECCAK_STATE_LENGTH == KECCAK_DIM * KECCAK_DIM * KECCAK_WORD

KECCAK_ROUNDS == 12 + 2 * KECCAK_ELL

ROT_TABLE ==
  << <<0, 36, 3, 41, 18>>,
     <<1, 44, 10, 45, 2>>,
     <<62, 6, 43, 15, 61>>,
     <<28, 55, 25, 21, 56>>,
     <<27, 20, 39, 8, 14>> >>

\* The 24 round constants, each written as its four 16-bit limbs, most
\* significant first (0x8000000080008000 is <<32768, 0, 32768, 32768>>).
ROUND_CONSTANT_LIMBS ==
  << <<0, 0, 0, 1>>,                 \* 0x0000000000000001
     <<0, 0, 0, 32898>>,             \* 0x0000000000008082
     <<32768, 0, 0, 32906>>,         \* 0x800000000000808a
     <<32768, 0, 32768, 32768>>,     \* 0x8000000080008000
     <<0, 0, 0, 32907>>,             \* 0x000000000000808b
     <<0, 0, 32768, 1>>,             \* 0x0000000080000001
     <<32768, 0, 32768, 32897>>,     \* 0x8000000080008081
     <<32768, 0, 0, 32777>>,         \* 0x8000000000008009
     <<0, 0, 0, 138>>,               \* 0x000000000000008a
     <<0, 0, 0, 136>>,               \* 0x0000000000000088
     <<0, 0, 32768, 32777>>,         \* 0x0000000080008009
     <<0, 0, 32768, 10>>,            \* 0x000000008000000a
     <<0, 0, 32768, 32907>>,         \* 0x000000008000808b
     <<32768, 0, 0, 139>>,           \* 0x800000000000008b
     <<32768, 0, 0, 32905>>,         \* 0x8000000000008089
     <<32768, 0, 0, 32771>>,         \* 0x8000000000008003
     <<32768, 0, 0, 32770>>,         \* 0x8000000000008002
     <<32768, 0, 0, 128>>,           \* 0x8000000000000080
     <<0, 0, 0, 32778>>,             \* 0x000000000000800a
     <<32768, 0, 32768, 10>>,        \* 0x800000008000000a
     <<32768, 0, 32768, 32897>>,     \* 0x8000000080008081
     <<32768, 0, 0, 32896>>,         \* 0x8000000000008080
     <<0, 0, 32768, 1>>,             \* 0x0000000080000001
     <<32768, 0, 32768, 32776>> >>   \* 0x8000000080008008

WordBits == 0 .. (KECCAK_WORD - 1)

DIM == 0 .. (KECCAK_DIM - 1)

\* Bit k of the natural number n.
BitOf(n, k) == (n \div (2 ^ k)) % 2

\* The lane whose value is written as four 16-bit limbs, most significant first.
WordOfLimbs(l) == {k \in WordBits : BitOf(l[4 - (k \div 16)], k % 16) = 1}

ROUND_CONSTANTS ==
  << WordOfLimbs(ROUND_CONSTANT_LIMBS[1]), WordOfLimbs(ROUND_CONSTANT_LIMBS[2]),
     WordOfLimbs(ROUND_CONSTANT_LIMBS[3]), WordOfLimbs(ROUND_CONSTANT_LIMBS[4]),
     WordOfLimbs(ROUND_CONSTANT_LIMBS[5]), WordOfLimbs(ROUND_CONSTANT_LIMBS[6]),
     WordOfLimbs(ROUND_CONSTANT_LIMBS[7]), WordOfLimbs(ROUND_CONSTANT_LIMBS[8]),
     WordOfLimbs(ROUND_CONSTANT_LIMBS[9]), WordOfLimbs(ROUND_CONSTANT_LIMBS[10]),
     WordOfLimbs(ROUND_CONSTANT_LIMBS[11]), WordOfLimbs(ROUND_CONSTANT_LIMBS[12]),
     WordOfLimbs(ROUND_CONSTANT_LIMBS[13]), WordOfLimbs(ROUND_CONSTANT_LIMBS[14]),
     WordOfLimbs(ROUND_CONSTANT_LIMBS[15]), WordOfLimbs(ROUND_CONSTANT_LIMBS[16]),
     WordOfLimbs(ROUND_CONSTANT_LIMBS[17]), WordOfLimbs(ROUND_CONSTANT_LIMBS[18]),
     WordOfLimbs(ROUND_CONSTANT_LIMBS[19]), WordOfLimbs(ROUND_CONSTANT_LIMBS[20]),
     WordOfLimbs(ROUND_CONSTANT_LIMBS[21]), WordOfLimbs(ROUND_CONSTANT_LIMBS[22]),
     WordOfLimbs(ROUND_CONSTANT_LIMBS[23]), WordOfLimbs(ROUND_CONSTANT_LIMBS[24]) >>

\* ------------------------------------------------------------------------
\* The bitwise gadget library (Gadgets.xor / and / not / rotate) on lanes
\* ------------------------------------------------------------------------

xor(a, b) == (a \ b) \cup (b \ a)

and(a, b) == a \cap b

not(a) == WordBits \ a

rotate(a, n) == {(k + n) % KECCAK_WORD : k \in a}

\* ------------------------------------------------------------------------
\* States
\* ------------------------------------------------------------------------

Vec5(F(_)) == <<F(0), F(1), F(2), F(3), F(4)>>

Mat5(F(_, _)) == Vec5(LAMBDA x : Vec5(LAMBDA y : F(x, y)))

At(state, x, y) == state[x + 1][y + 1]

getKeccakStateZeros == Mat5(LAMBDA x, y : {})

\* ------------------------------------------------------------------------
\* ROUND TRANSFORMATION
\* ------------------------------------------------------------------------

theta(state) ==
  LET stateC == Vec5(LAMBDA x :
                  xor(xor(xor(xor(At(state, x, 0), At(state, x, 1)),
                              At(state, x, 2)), At(state, x, 3)), At(state, x, 4)))
      stateD == Vec5(LAMBDA x :
                  xor(stateC[((x + KECCAK_DIM - 1) % KECCAK_DIM) + 1],
                      rotate(stateC[((x + 1) % KECCAK_DIM) + 1], 1)))
  IN  Mat5(LAMBDA x, y : xor(At(state, x, y), stateD[x + 1]))

\* stateB[y][(2x + 3y) % 5] = rotate(stateE[x][y], ROT_TABLE[x][y]): the lane
\* written at (a, b) is the one read at the unique (x, a) with (2x + 3a) % 5 = b.
piRho(state) ==
  Mat5(LAMBDA a, b :
    LET x == CHOOSE x0 \in DIM : (2 * x0 + 3 * a) % KECCAK_DIM = b
    IN  rotate(At(state, x, a), ROT_TABLE[x + 1][a + 1]))

chi(state) ==
  Mat5(LAMBDA x, y :
    xor(At(state, x, y),
        and(not(At(state, (x + 1) % KECCAK_DIM, y)),
            At(state, (x + 2) % KECCAK_DIM, y))))

iota(state, rc) == [state EXCEPT ![1][1] = xor(state[1][1], rc)]

round(state, rc) == iota(chi(piRho(theta(state))), rc)

\* rc.reduce((currentState, rcValue) => round(currentState, rcValue), state).
\* A state always has KECCAK_DIM rows: the test makes each round's state be
\* computed before the next round is entered, as reduce does.
RECURSIVE permutationFrom(_, _, _)
permutationFrom(state, rc, i) ==
  IF i > Len(rc) THEN state
  ELSE LET next == round(state, rc[i])
       IN  IF Len(next) = KECCAK_DIM THEN permutationFrom(next, rc, i + 1) ELSE next

permutation(state, rc) == permutationFrom(state, rc, 1)

\* ------------------------------------------------------------------------
\* Circuit values and the constraint system under construction
\* ------------------------------------------------------------------------

\* Field.from(v): a constant, no circuit variable.
Const(v) == [id |-> 0, val |-> v]

\* x.add(y) on byte-sized circuit values; the sum of two constants is a constant.
FieldAdd(a, b) ==
  [id |-> IF a.id = 0 /\ b.id = 0 THEN 0 ELSE a.id, val |-> a.val + b.val]

\* The constraint system a call has built so far:
\*   witnesses  number of byte variables created by existsOne,
\*   rc         the values of the 24 variables created by exists(24, ...),
\*              <<>> while none has been created,
\*   gates      the constraints added by this code, in order of creation,
\*   xors       number of keccakStateXor calls (25 Gadgets.xor each),
\*   perms      number of permutation calls (24 rounds of gadgets each).
EmptyCircuit == [witnesses |-> 0, rc |-> <<>>, gates |-> <<>>, xors |-> 0, perms |-> 0]

\* word.assertEquals(composition of bytes)
AssertEqualsGate(word, bytes) == [op |-> "assertEquals", word |-> word, bytes |-> bytes]

\* rangeCheck8(x)
rangeCheck8(x) == [op |-> "rangeCheck8", word |-> {}, bytes |-> <<x>>]

\* checkBytes that stops one element early.
checkBytes_SkipLast(inputs, circuit) ==
  [circuit EXCEPT !.gates = @ \o [i \in 1 .. (Len(inputs) - 1) |-> rangeCheck8(inputs[i])]]

\* inputs.map(rangeCheck8): one range check per element, in array order.
checkBytes(inputs, circuit) ==
  [circuit EXCEPT !.gates = @ \o [i \in 1 .. Len(inputs) |-> rangeCheck8(inputs[i])]]

\* Array.from: the array whose element i is f[i], its elements computed once.
ArrayFrom(f) == <<>> \o f

\* array.reverse()
Reverse(s) == ArrayFrom([i \in 1 .. Len(s) |-> s[Len(s) + 1 - i]])

\* ------------------------------------------------------------------------
\* State codec
\* ------------------------------------------------------------------------

\* Carry into digit z (1-based) of the sum of vals[i] * 256^(i-1).
RECURSIVE CarryIn(_, _)
CarryIn(vals, z) ==
  IF z = 1 THEN 0 ELSE (vals[z - 1] + CarryIn(vals, z - 1)) \div 256

\* The value of wordBytes.reduce((acc, x, i) => acc.add(x.mul(2^(8i))), 0) for
\* natural numbers vals: its low 64 bits as a lane, and what exceeds 64 bits.
Composition(vals) ==
  [word |-> {k \in WordBits :
               BitOf((vals[(k \div 8) + 1] + CarryIn(vals, (k \div 8) + 1)) % 256, k % 8) = 1},
   overflow |-> CarryIn(vals, BYTES_PER_WORD + 1)]

\* The value assertEquals compares the word with.
checkBytesToWord(word, wordBytes) ==
  LET c == Composition([i \in 1 .. Len(wordBytes) |-> wordBytes[i].val])
  IN  c.overflow = 0 /\ c.word = word

\* (word >> (8 * z)) & 0xff
ByteOfWord(word, z) ==
  0
  + (IF 8 * z \in word THEN 1 ELSE 0)
  + (IF 8 * z + 1 \in word THEN 2 ELSE 0)
  + (IF 8 * z + 2 \in word THEN 4 ELSE 0)
  + (IF 8 * z + 3 \in word THEN 8 ELSE 0)
  + (IF 8 * z + 4 \in word THEN 16 ELSE 0)
  + (IF 8 * z + 5 \in word THEN 32 ELSE 0)
  + (IF 8 * z + 6 \in word THEN 64 ELSE 0)
  + (IF 8 * z + 7 \in word THEN 128 ELSE 0)

\* The bytes of the byte string that belong to lane (x, y):
\* idx = BYTES_PER_WORD * (KECCAK_DIM * y + x), slice(idx, idx + BYTES_PER_WORD).
\* WordBytesAt with the coordinates exchanged.
WordBytesAt_Transposed(bytestring, x, y) ==
  LET idx == BYTES_PER_WORD * (KECCAK_DIM * x + y)
  IN  SubSeq(bytestring, idx + 1, idx + BYTES_PER_WORD)

WordBytesAt(bytestring, x, y) ==
  LET idx == BYTES_PER_WORD * (KECCAK_DIM * y + x)
  IN  SubSeq(bytestring, idx + 1, idx + BYTES_PER_WORD)

getKeccakStateOfBytes(bytestring) ==
  IF Len(bytestring) # 200
  THEN [status |-> "error", error |-> "improper bytestring length",
        state |-> getKeccakStateZeros]
  ELSE [status |-> "ok", error |-> "",
        state |-> Mat5(LAMBDA x, y :
                    LET wordBytes == WordBytesAt(bytestring, x, y)
                    IN  Composition([z \in 1 .. BYTES_PER_WORD |-> wordBytes[z].val]).word)]

\* Returns the 200 witnessed bytes and the circuit with the 200 new variables
\* and the 25 recomposition equalities (y outer, x inner).
keccakStateToBytes(state, circuit) ==
  LET stateLengthInBytes == KECCAK_STATE_LENGTH \div 8
      bytestring ==
        ArrayFrom([i \in 1 .. stateLengthInBytes |->
           LET idx == i - 1
               z == idx % BYTES_PER_WORD
               x == (idx \div BYTES_PER_WORD) % KECCAK_DIM
               y == (idx \div BYTES_PER_WORD) \div KECCAK_DIM
           IN  [id |-> circuit.witnesses + i, val |-> ByteOfWord(At(state, x, y), z)]])
      checks ==
        ArrayFrom([g \in 1 .. (KECCAK_DIM * KECCAK_DIM) |->
           LET y == (g - 1) \div KECCAK_DIM
               x == (g - 1) % KECCAK_DIM
           IN  AssertEqualsGate(At(state, x, y), WordBytesAt(bytestring, x, y))])
  IN  [bytestring |-> bytestring,
       circuit |-> [circuit EXCEPT !.witnesses = @ + stateLengthInBytes,
                                   !.gates = @ \o checks]]

keccakStateXor(a, b) == Mat5(LAMBDA x, y : xor(At(a, x, y), At(b, x, y)))

\* ------------------------------------------------------------------------
\* KECCAK HASH FUNCTION: padding
\* ------------------------------------------------------------------------

\* A JavaScript number that is an integer or NaN.
Num(n) == [nan |-> FALSE, n |-> n]

NaN == [nan |-> TRUE, n |-> 0]

\* Math.floor(rate / 8)
FloorDiv8(rate) == IF rate >= 0 THEN rate \div 8 ELSE -((7 - rate) \div 8)

\* a % b of JavaScript for a >= 0: NaN for b = 0, else a modulo |b|.
JsRem(a, b) ==
  IF b = 0 THEN NaN ELSE Num(a % (IF b < 0 THEN -b ELSE b))

\* bytesToPad that pads nothing when the message already fills its blocks.
bytesToPad_NoFullBlock(rate, length) ==
  LET r == JsRem(length, FloorDiv8(rate))
  IN  IF r.nan THEN NaN
      ELSE IF r.n = 0 /\ FloorDiv8(rate) > 0 THEN Num(0)
      ELSE Num(FloorDiv8(rate) - r.n)

bytesToPad(rate, length) ==
  LET r == JsRem(length, FloorDiv8(rate))
  IN  IF r.nan THEN NaN ELSE Num(FloorDiv8(rate) - r.n)

\* Array(extraBytes).fill(0), pad[0] = first, pad[extraBytes - 1] += 0x80,
\* [...message, ...pad].  Array(n) throws a RangeError unless n is an integer
\* >= 0; on an empty array pad[-1] is undefined and .add throws a TypeError.
padNist(message, rate) ==
  LET extraBytes == bytesToPad(rate, Len(message))
      last == Const(2 ^ 7)
  IN  IF extraBytes.nan \/ extraBytes.n < 0
      THEN [status |-> "error", error |-> "RangeError: Invalid array length", value |-> <<>>]
      ELSE IF extraBytes.n = 0
      THEN [status |-> "error", error |-> "TypeError", value |-> <<>>]
      ELSE LET pad0 == [i \in 1 .. extraBytes.n |-> IF i = 1 THEN Const(6) ELSE Const(0)]
               pad == [pad0 EXCEPT ![extraBytes.n] = FieldAdd(@, last)]
           IN  [status |-> "ok", error |-> "", value |-> message \o pad]

\* pad101 with the first pad byte of padNist.
pad101_NistMarker(message, rate) == padNist(message, rate)

pad101(message, rate) ==
  LET extraBytes == bytesToPad(rate, Len(message))
      last == Const(2 ^ 7)
  IN  IF extraBytes.nan \/ extraBytes.n < 0
      THEN [status |-> "error", error |-> "RangeError: Invalid array length", value |-> <<>>]
      ELSE IF extraBytes.n = 0
      THEN [status |-> "error", error |-> "TypeError", value |-> <<>>]
      ELSE LET pad0 == [i \in 1 .. extraBytes.n |-> IF i = 1 THEN Const(1) ELSE Const(0)]
               pad == [pad0 EXCEPT ![extraBytes.n] = FieldAdd(@, last)]
           IN  [status |-> "ok", error |-> "", value |-> message \o pad]

\* ------------------------------------------------------------------------
\* Sponge
\* ------------------------------------------------------------------------

\* The loop of absorb from byte offset i (0-based) on, with the running state.
RECURSIVE absorbFrom(_, _, _, _, _, _, _)
absorbFrom(paddedMessage, zeros, rate, rc, state, i, circuit) ==
  IF i >= Len(paddedMessage)
  THEN [status |-> "ok", error |-> "", state |-> state, circuit |-> circuit]
  ELSE LET hi == IF i + rate \div 8 > Len(paddedMessage)
                 THEN Len(paddedMessage) ELSE i + rate \div 8
           block == SubSeq(paddedMessage, i + 1, hi)
           paddedBlock == block \o zeros
       IN  IF Len(paddedBlock) * 8 # KECCAK_STATE_LENGTH
           THEN [status |-> "error", error |-> "improper Keccak block length",
                 state |-> state, circuit |-> circuit]
           ELSE LET blockState == getKeccakStateOfBytes(paddedBlock)
                    stateXor == keccakStateXor(state, blockState.state)
                    statePerm == permutation(stateXor, rc)
                IN  absorbFrom(paddedMessage, zeros, rate, rc, statePerm, i + rate \div 8,
                               [circuit EXCEPT !.xors = @ + 1, !.perms = @ + 1])

\* Array(capacity / 8) throws a RangeError when capacity / 8 is no integer.
absorb(paddedMessage, capacity, rate, rc, circuit) ==
  IF capacity % 8 # 0 \/ capacity < 0
  THEN [status |-> "error", error |-> "RangeError: Invalid array length",
        state |-> getKeccakStateZeros, circuit |-> circuit]
  ELSE absorbFrom(paddedMessage, ArrayFrom([i \in 1 .. (capacity \div 8) |-> Const(0)]), rate, rc,
                  getKeccakStateZeros, 0, circuit)

\* copy(bytestring, outputArray, start, length)
copy(bytestring, outputArray, start, length) ==
  ArrayFrom([j \in 1 .. Len(outputArray) |->
     IF j > start /\ j <= start + length THEN bytestring[j - start] ELSE outputArray[j]])

\* The loop of squeeze from iteration i on.  state is the argument of squeeze,
\* newState the variable the loop permutes; the bytes of iteration i are read
\* from keccakStateToBytes(state), as in the source (line 523).
RECURSIVE squeezeFrom(_, _, _, _, _, _, _, _)
squeezeFrom(state, newState, rc, bytesPerSqueeze, squeezes, i, outputArray, circuit) ==
  IF i >= squeezes
  THEN [outputArray |-> outputArray, newState |-> newState, circuit |-> circuit]
  ELSE LET permuted == permutation(newState, rc)
           bytestringI == keccakStateToBytes(state, [circuit EXCEPT !.perms = @ + 1])
           outputBytesI == SubSeq(bytestringI.bytestring, 1, bytesPerSqueeze)
       IN  squeezeFrom(state, permuted, rc, bytesPerSqueeze, squeezes, i + 1,
                       copy(outputBytesI, outputArray, bytesPerSqueeze * i, bytesPerSqueeze),
                       bytestringI.circuit)

\* The end of squeeze: hashed = outputArray.slice(0, length / 8), with the
\* circuit and the loop's newState as the loop left them.
squeezeReturn(done, length) ==
  [value |-> SubSeq(done.outputArray, 1, length \div 8),
   newState |-> done.newState,
   circuit |-> done.circuit]

squeeze(state, length, rate, rc, circuit) ==
  LET bytesPerSqueeze == rate \div 8
      squeezes == (length \div rate) + 1
      outputLength == squeezes * bytesPerSqueeze
      outputArray == ArrayFrom([j \in 1 .. outputLength |-> Const(0)])
      bytestring == keccakStateToBytes(state, circuit)
      outputBytes == SubSeq(bytestring.bytestring, 1, bytesPerSqueeze)
  IN  squeezeReturn(squeezeFrom(state, state, rc, bytesPerSqueeze, squeezes, 1,
                                copy(outputBytes, outputArray, 0, bytesPerSqueeze),
                                bytestring.circuit),
                    length)

\* advice is what the prover supplies for the 24 variables of exists(24, ...);
\* the callback of the source computes ROUND_CONSTANTS.
\* The end of sponge: return hashed.
spongeReturn(hashed) ==
  [status |-> "ok", error |-> "", value |-> hashed.value, circuit |-> hashed.circuit]

\* sponge once absorb has returned or thrown: an error of absorb propagates,
\* else the absorbed state is squeezed.
spongeSqueeze(absorbed, length, rate, rc) ==
  IF absorbed.status # "ok"
  THEN [status |-> "error", error |-> absorbed.error,
        value |-> <<>>, circuit |-> absorbed.circuit]
  ELSE spongeReturn(squeeze(absorbed.state, length, rate, rc, absorbed.circuit))

sponge(paddedMessage, length, capacity, rate, circuit, advice) ==
  IF (Len(paddedMessage) * 8) % rate # 0
  THEN [status |-> "error", error |-> "Invalid padded message length",
        value |-> <<>>, circuit |-> circuit]
  ELSE LET rc == advice
           withRc == [circuit EXCEPT !.rc = rc]
       IN  spongeSqueeze(absorb(paddedMessage, capacity, rate, rc, withRc),
                         length, rate, rc)

\* ------------------------------------------------------------------------
\* Hash facade
\* ------------------------------------------------------------------------

\* What a call leaves behind: the returned bytes (value) or the error raised,
\* the caller's message array after the call, and the constraint system as
\* it stands when the call returns or throws.
Raised(error, message, circuit) ==
  [status |-> "error", error |-> error, value |-> <<>>,
   message |-> message, circuit |-> circuit]

Returned(value, message, circuit) ==
  [status |-> "ok", error |-> "", value |-> value,
   message |-> message, circuit |-> circuit]

\* hashAsserts without its last assert.
hashAsserts_NoAlignment(length, capacity) ==
  IF ~(capacity > 0) THEN "capacity must be positive"
  ELSE IF ~(capacity < KECCAK_STATE_LENGTH) THEN "capacity must be less than 1600"
  ELSE IF ~(length > 0) THEN "length must be positive"
  ELSE ""

\* The four asserts that open hash: the message of the first that fails, "" if
\* none does.
hashAsserts(length, capacity) ==
  IF ~(capacity > 0) THEN "capacity must be positive"
  ELSE IF ~(capacity < KECCAK_STATE_LENGTH) THEN "capacity must be less than 1600"
  ELSE IF ~(length > 0) THEN "length must be positive"
  ELSE IF ~(length % 8 = 0) THEN "length must be a multiple of 8"
  ELSE ""

\* formatInput that never reverses.
formatInput_NoReverse(inpEndian, message) == message

\* inpEndian === 'Big' ? message : message.reverse(); reverse() reverses the
\* caller's array in place and returns that same array.
formatInput(inpEndian, message) ==
  IF inpEndian = "Big" THEN message ELSE Reverse(message)

\* outEndian === 'Big' ? hash : hash.reverse()
formatOutput(outEndian, hashed) ==
  IF outEndian = "Big" THEN hashed ELSE Reverse(hashed)

\* hash once sponge has returned or thrown: an error propagates, else every
\* output byte is range-checked and the output is put in the asked order.
hashReturn(outEndian, messageFormatted, sponged) ==
  IF sponged.status # "ok"
  THEN Raised(sponged.error, messageFormatted, sponged.circuit)
  ELSE Returned(formatOutput(outEndian, sponged.value), messageFormatted,
                checkBytes(sponged.value, sponged.circuit))

hash(inpEndian, outEndian, byteChecks, message, length, capacity, nistVersion, advice) ==
  IF hashAsserts(length, capacity) # ""
  THEN Raised(hashAsserts(length, capacity), message, EmptyCircuit)
  ELSE
    LET messageFormatted == formatInput(inpEndian, message)
        checked == IF byteChecks THEN checkBytes(messageFormatted, EmptyCircuit)
                   ELSE EmptyCircuit
        rate == KECCAK_STATE_LENGTH - capacity
        padded == IF nistVersion THEN padNist(messageFormatted, rate)
                  ELSE pad101(messageFormatted, rate)
    IN  IF padded.status # "ok" THEN Raised(padded.error, messageFormatted, checked)
        ELSE hashReturn(outEndian, messageFormatted,
                        sponge(padded.value, length, capacity, rate, checked, advice))

\* nistSha3 with the capacity of its 384 case mistyped.
nistSha3_WrongCapacity(len, message, inpEndian, outEndian, byteChecks, advice) ==
  CASE len = 224 -> hash(inpEndian, outEndian, byteChecks, message, 224, 448, TRUE, advice)
    [] len = 256 -> hash(inpEndian, outEndian, byteChecks, message, 256, 512, TRUE, advice)
    [] len = 384 -> hash(inpEndian, outEndian, byteChecks, message, 384, 786, TRUE, advice)
    [] len = 512 -> hash(inpEndian, outEndian, byteChecks, message, 512, 1024, TRUE, advice)
    [] OTHER -> Raised("Invalid length", message, EmptyCircuit)

nistSha3(len, message, inpEndian, outEndian, byteChecks, advice) ==
  CASE len = 224 -> hash(inpEndian, outEndian, byteChecks, message, 224, 448, TRUE, advice)
    [] len = 256 -> hash(inpEndian, outEndian, byteChecks, message, 256, 512, TRUE, advice)
    [] len = 384 -> hash(inpEndian, outEndian, byteChecks, message, 384, 768, TRUE, advice)
    [] len = 512 -> hash(inpEndian, outEndian, byteChecks, message, 512, 1024, TRUE, advice)
    [] OTHER -> Raised("Invalid length", message, EmptyCircuit)

ethereum(inpEndian, outEndian, byteChecks, message, advice) ==
  hash(inpEndian, outEndian, byteChecks, message, 256, 512, FALSE, advice)

preNist(len, message, inpEndian, outEndian, byteChecks, advice) ==
  CASE len = 224 -> hash(inpEndian, outEndian, byteChecks, message, 224, 448, FALSE, advice)
    [] len = 256 -> ethereum(inpEndian, outEndian, byteChecks, message, advice)
    [] len = 384 -> hash(inpEndian, outEndian, byteChecks, message, 384, 768, FALSE, advice)
    [] len = 512 -> hash(inpEndian, outEndian, byteChecks, message, 512, 1024, FALSE, advice)
    [] OTHER -> Raised("Invalid length", message, EmptyCircuit)

\* ------------------------------------------------------------------------
\* State and inputs
\* ------------------------------------------------------------------------

VARIABLES
  message,   \* the caller's array of byte-sized circuit values
  advice,    \* the values the prover supplies for exists(24, ...)
  call,      \* the call made: the function and its arguments
  outcome    \* what the call returned or raised, and the circuit it built

vars == <<message, advice, call, outcome>>

\* Longest message of the facade and sponge specifications, in bytes.
MaxMsgLen == 2

\* First bytes of the messages: byte i of a message is (seed + i) % 256.
MsgSeeds == {0}

Endians == {"Big", "Little"}

\* The caller's variables are numbered -1, -2, ... in array order.
MessageOf(seed, n) == [i \in 1 .. n |-> [id |-> -i, val |-> (seed + i) % 256]]

Messages == {MessageOf(seed, n) : seed \in MsgSeeds, n \in 0 .. MaxMsgLen}

\* Arguments of direct calls of hash: valid and invalid lengths and capacities;
\* capacity 1584 is rate 16 (two bytes a block), capacity 1588 is rate 12.
HashLengths == {-8, 0, 4, 16, 24}

HashCapacities == {-8, 0, 1584, 1588, 1600, 1608}

\* The len argument of nistSha3 and preNist: the four supported and others.
Lens == {0, 224, 255, 256, 384, 512}

NoCall == [fn |-> "none"]

NoOutcome == [status |-> "none"]

\* ------------------------------------------------------------------------
\* The facade: one call of hash, nistSha3, ethereum or preNist
\* ------------------------------------------------------------------------

InitFacade ==
  /\ message \in Messages
  /\ advice = ROUND_CONSTANTS
  /\ call = NoCall
  /\ outcome = NoOutcome

Hash ==
  /\ call = NoCall
  /\ \E inpEndian \in Endians, outEndian \in Endians, byteChecks \in BOOLEAN,
        length \in HashLengths, capacity \in HashCapacities, nistVersion \in BOOLEAN :
       /\ call' = [fn |-> "hash", inpEndian |-> inpEndian, outEndian |-> outEndian,
                   byteChecks |-> byteChecks, message |-> message, length |-> length,
                   capacity |-> capacity, nistVersion |-> nistVersion]
       /\ outcome' = hash(inpEndian, outEndian, byteChecks, message, length, capacity,
                       nistVersion, advice)
       /\ message' = outcome'.message
  /\ UNCHANGED advice

NistSha3 ==
  /\ call = NoCall
  /\ \E len \in Lens, inpEndian \in Endians, outEndian \in Endians, byteChecks \in BOOLEAN :
       /\ call' = [fn |-> "nistSha3", inpEndian |-> inpEndian, outEndian |-> outEndian,
                   byteChecks |-> byteChecks, message |-> message, len |-> len]
       /\ outcome' = nistSha3(len, message, inpEndian, outEndian, byteChecks, advice)
       /\ message' = outcome'.message
  /\ UNCHANGED advice

Ethereum ==
  /\ call = NoCall
  /\ \E inpEndian \in Endians, outEndian \in Endians, byteChecks \in BOOLEAN :
       /\ call' = [fn |-> "ethereum", inpEndian |-> inpEndian, outEndian |-> outEndian,
                   byteChecks |-> byteChecks, message |-> message]
       /\ outcome' = ethereum(inpEndian, outEndian, byteChecks, message, advice)
       /\ message' = outcome'.message
  /\ UNCHANGED advice

PreNist ==
  /\ call = NoCall
  /\ \E len \in Lens, inpEndian \in Endians, outEndian \in Endians, byteChecks \in BOOLEAN :
       /\ call' = [fn |-> "preNist", inpEndian |-> inpEndian, outEndian |-> outEndian,
                   byteChecks |-> byteChecks, message |-> message, len |-> len]
       /\ outcome' = preNist(len, message, inpEndian, outEndian, byteChecks, advice)
       /\ message' = outcome'.message
  /\ UNCHANGED advice

Next == Hash \/ NistSha3 \/ Ethereum \/ PreNist

Spec == InitFacade /\ [][Next]_vars

\* ------------------------------------------------------------------------
\* The sponge's functions one by one: padNist / pad101, then absorb, then
\* squeeze, each on what the one before returned
\* ------------------------------------------------------------------------

\* Rates of the padding calls run from -MaxRate to MaxRate, in bits.
MaxRate == 24

\* Output lengths of the squeeze calls are 8, 16, ..., 8 * MaxSqueezeBytes bits.
MaxSqueezeBytes == 4

PadRates == (0 - MaxRate) .. MaxRate

SqueezeLengths == {8 * k : k \in 1 .. MaxSqueezeBytes}

PadNist ==
  /\ call = NoCall
  /\ \E rate \in PadRates :
       /\ call' = [fn |-> "padNist", rate |-> rate, message |-> message]
       /\ outcome' = padNist(message, rate)
  /\ UNCHANGED <<message, advice>>

Pad101 ==
  /\ call = NoCall
  /\ \E rate \in PadRates :
       /\ call' = [fn |-> "pad101", rate |-> rate, message |-> message]
       /\ outcome' = pad101(message, rate)
  /\ UNCHANGED <<message, advice>>

\* absorb as sponge calls it: on a padded message that passed sponge's length
\* check, with capacity = 1600 - rate and the round constants witnessed.
Absorb ==
  /\ call.fn \in {"padNist", "pad101"}
  /\ outcome.status = "ok"
  /\ call.rate > 0
  /\ (Len(outcome.value) * 8) % call.rate = 0
  /\ call' = [fn |-> "absorb", rate |-> call.rate, paddedMessage |-> outcome.value]
  /\ outcome' = absorb(outcome.value, KECCAK_STATE_LENGTH - call.rate, call.rate, advice,
                       [EmptyCircuit EXCEPT !.rc = advice])
  /\ UNCHANGED <<message, advice>>

Squeeze ==
  /\ call.fn = "absorb"
  /\ outcome.status = "ok"
  /\ \E length \in SqueezeLengths :
       /\ call' = [fn |-> "squeeze", rate |-> call.rate, length |-> length,
                   state |-> outcome.state, circuit |-> outcome.circuit]
       /\ outcome' = squeeze(outcome.state, length, call.rate, advice, outcome.circuit)
  /\ UNCHANGED <<message, advice>>

NextSponge == PadNist \/ Pad101 \/ Absorb \/ Squeeze

SpecSponge == InitFacade /\ [][NextSponge]_vars

\* ------------------------------------------------------------------------
\* The state codec: getKeccakStateOfBytes, then keccakStateToBytes on the
\* state it returned
\* ------------------------------------------------------------------------

\* Byte i of a codec input is (slope * i + offset) % 256, slope in 0 .. MaxSlope
\* and offset in 0 .. MaxOffset.
MaxSlope == 3

MaxOffset == 20

\* Lengths of the codec inputs: the one the codec takes and its neighbours.
CodecLengths == {199, 200, 201}

CodecInputs ==
  {[i \in 1 .. n |-> [id |-> -i, val |-> (slope * i + offset) % 256]] :
     slope \in 0 .. MaxSlope, offset \in 0 .. MaxOffset, n \in CodecLengths}

InitCodec ==
  /\ message \in CodecInputs
  /\ advice = ROUND_CONSTANTS
  /\ call = NoCall
  /\ outcome = NoOutcome

GetKeccakStateOfBytes ==
  /\ call = NoCall
  /\ call' = [fn |-> "getKeccakStateOfBytes"]
  /\ outcome' = getKeccakStateOfBytes(message)
  /\ UNCHANGED <<message, advice>>

KeccakStateToBytes ==
  /\ call.fn = "getKeccakStateOfBytes"
  /\ outcome.status = "ok"
  /\ call' = [fn |-> "keccakStateToBytes", state |-> outcome.state]
  /\ outcome' = keccakStateToBytes(outcome.state, EmptyCircuit)
  /\ UNCHANGED <<message, advice>>

NextCodec == GetKeccakStateOfBytes \/ KeccakStateToBytes

SpecCodec == InitCodec /\ [][NextCodec]_vars

\* ------------------------------------------------------------------------
\* The public functions with a prover that chooses the exists(24, ...) values
\* ------------------------------------------------------------------------

\* A prover may supply 0 instead of the constant of any one of the rounds
\* 1 .. MaxForgedRound.
MaxForgedRound == 1

Advices ==
  {ROUND_CONSTANTS} \cup {[ROUND_CONSTANTS EXCEPT ![i] = {}] : i \in 1 .. MaxForgedRound}

InitProver ==
  /\ message \in Messages
  /\ advice \in Advices
  /\ call = NoCall
  /\ outcome = NoOutcome

NextProver == NistSha3 \/ Ethereum \/ PreNist

SpecProver == InitProver /\ [][NextProver]_vars

\* ------------------------------------------------------------------------
\* Properties
\* ------------------------------------------------------------------------

\* The static parameters hash rejects.
HashInvalid(c) ==
  c.capacity <= 0 \/ c.capacity >= 1600 \/ c.length <= 0 \/ c.length % 8 # 0

\* C1: a call of hash with capacity <= 0, capacity >= 1600, length <= 0 or a
\* length that is no multiple of 8 raises an error, and when it is raised no
\* witness has been created, no constraint added, no gadget called, and the
\* caller's message is neither reversed nor padded.
C1_InvalidParametersRejectedFirst ==
  (call.fn = "hash" /\ HashInvalid(call)) =>
    /\ outcome.status = "error"
    /\ outcome.value = <<>>
    /\ outcome.circuit.witnesses = 0
    /\ outcome.circuit.rc = <<>>
    /\ outcome.circuit.gates = <<>>
    /\ outcome.circuit.xors = 0
    /\ outcome.circuit.perms = 0
    /\ outcome.message = call.message
    /\ message = call.message

\* C1 witness: an invalid call that asked for input reversal and input range
\* checks on a two-byte message, and was rejected.
C1_Witness ==
  /\ call.fn = "hash"
  /\ HashInvalid(call)
  /\ call.length = 4
  /\ call.capacity = 1584
  /\ call.inpEndian = "Little"
  /\ call.byteChecks
  /\ Len(call.message) = 2
  /\ outcome.status = "error"

IsPadCall == call.fn \in {"padNist", "pad101"}

\* A rate that is a positive multiple of 8 bits.
ValidRate(rate) == rate > 0 /\ rate % 8 = 0

\* C2: for a rate that is a positive multiple of 8, padNist and pad101 append
\* padLength = bytesToPad(rate, n) bytes to a message of n bytes, with
\* 1 <= padLength <= rate/8 and (n + padLength) * 8 a multiple of rate; a
\* message that fills its blocks (n = 0 too) gets a full block of rate/8 bytes.
C2_PaddingLength ==
  (IsPadCall /\ ValidRate(call.rate)) =>
    LET n == Len(call.message)
        padLength == Len(outcome.value) - n
    IN  /\ outcome.status = "ok"
        /\ ~bytesToPad(call.rate, n).nan
        /\ padLength = bytesToPad(call.rate, n).n
        /\ 1 <= padLength
        /\ padLength <= call.rate \div 8
        /\ ((n + padLength) * 8) % call.rate = 0
        /\ (n % (call.rate \div 8) = 0 => padLength = call.rate \div 8)

\* C2 witness: a two-byte message padded for a rate of 16 bits, which it
\* already fills: two more bytes.
C2_Witness ==
  /\ IsPadCall
  /\ call.rate = 16
  /\ Len(call.message) = 2
  /\ outcome.status = "ok"
  /\ Len(outcome.value) = 4

\* C3 as claimed: for a rate that is not a positive multiple of 8, padNist and
\* pad101 raise an error instead of returning a padded message.
C3_InvalidRateRejected ==
  (IsPadCall /\ ~ValidRate(call.rate)) => outcome.status = "error"

\* C10: for a rate that is a positive multiple of 8 the padded message is the
\* message followed by padLength bytes: the single byte 0x86 (padNist) or 0x81
\* (pad101) when padLength = 1, else 0x06 or 0x01, then zeros, then 0x80.
C10_PaddingMarkers ==
  (IsPadCall /\ ValidRate(call.rate)) =>
    LET n == Len(call.message)
        padLength == Len(outcome.value) - n
        first == IF call.fn = "padNist" THEN 6 ELSE 1
    IN  /\ outcome.status = "ok"
        /\ padLength >= 1
        /\ SubSeq(outcome.value, 1, n) = call.message
        /\ (padLength = 1 => outcome.value[n + 1].val = first + 128)
        /\ (padLength >= 2 =>
              /\ outcome.value[n + 1].val = first
              /\ outcome.value[n + padLength].val = 128
              /\ \A k \in (n + 2) .. (n + padLength - 1) : outcome.value[k].val = 0)

\* C10 witness: pad101 of the empty message for a rate of 24 bits returns
\* 0x01, 0x00, 0x80.
C10_Witness ==
  /\ call.fn = "pad101"
  /\ call.rate = 24
  /\ Len(call.message) = 0
  /\ outcome.status = "ok"
  /\ Len(outcome.value) = 3
  /\ outcome.value[2].val = 0

\* The values of an array of circuit values.
Vals(bytes) == [i \in 1 .. Len(bytes) |-> bytes[i].val]

\* C4: for a sequence b of exactly 200 bytes, keccakStateToBytes of
\* getKeccakStateOfBytes(b) returns b element for element; byte z + 8*(5*y + x)
\* is byte z of lane (x, y) in both directions; and the 25 recomposition
\* equalities keccakStateToBytes installs hold of the witnessed bytes.
C4_CodecRoundTrip ==
  (call.fn = "keccakStateToBytes" /\ Len(message) = 200) =>
    /\ Len(outcome.bytestring) = 200
    /\ Vals(outcome.bytestring) = Vals(message)
    /\ \A x \in DIM, y \in DIM, z \in 0 .. 7 :
         /\ ByteOfWord(At(call.state, x, y), z) = message[z + 8 * (5 * y + x) + 1].val
         /\ outcome.bytestring[z + 8 * (5 * y + x) + 1].val = ByteOfWord(At(call.state, x, y), z)
    /\ Len(outcome.circuit.gates) = 25
    /\ \A g \in 1 .. 25 :
         /\ outcome.circuit.gates[g].op = "assertEquals"
         /\ Len(outcome.circuit.gates[g].bytes) = 8
         /\ checkBytesToWord(outcome.circuit.gates[g].word, outcome.circuit.gates[g].bytes)

\* C4 witness: the round trip of 200 bytes that differ from lane to lane and
\* reach past 127.
C4_Witness ==
  /\ call.fn = "keccakStateToBytes"
  /\ Len(message) = 200
  /\ message[1].val # message[9].val
  /\ message[1].val # message[41].val
  /\ message[200].val > 127
  /\ Len(outcome.bytestring) = 200

\* C5: hash with inpEndian 'Little' on m returns the bytes hash with inpEndian
\* 'Big' returns on reverse(m), and hash with outEndian 'Little' returns the
\* reverse of what hash with outEndian 'Big' returns, the other arguments fixed.
C5_Endianness ==
  (call.fn = "hash" /\ outcome.status = "ok") =>
    /\ call.inpEndian = "Little" =>
         Vals(outcome.value) =
           Vals(hash("Big", call.outEndian, call.byteChecks, Reverse(call.message),
                     call.length, call.capacity, call.nistVersion, advice).value)
    /\ call.outEndian = "Little" =>
         Vals(outcome.value) =
           Reverse(Vals(hash(call.inpEndian, "Big", call.byteChecks, call.message,
                             call.length, call.capacity, call.nistVersion, advice).value))

\* C5 witness: a little-endian call on a two-byte message that is no
\* palindrome, returning two bytes that are no palindrome either.
C5_Witness ==
  /\ call.fn = "hash"
  /\ outcome.status = "ok"
  /\ call.inpEndian = "Little"
  /\ call.outEndian = "Little"
  /\ Len(call.message) = 2
  /\ call.message[1].val # call.message[2].val
  /\ Len(outcome.value) = 2
  /\ outcome.value[1].val # outcome.value[2].val

\* The range checks among the gates of a circuit, in order.
RangeChecks(circuit) == SelectSeq(circuit.gates, LAMBDA g : g.op = "rangeCheck8")

\* C6: every byte a call returns has a range check, whatever byteChecks, the
\* endianness and the padding; the bytes of the message have one if and only
\* if byteChecks is true; and the output checks are the last gates of the
\* circuit, after every gate of the sponge, in the order of the output before
\* it is reversed.
C6_OutputAlwaysRangeChecked ==
  (call.fn \in {"hash", "nistSha3", "ethereum", "preNist"} /\ outcome.status = "ok") =>
    LET gates == outcome.circuit.gates
        n == Len(outcome.value)
        nIn == IF call.byteChecks THEN Len(call.message) ELSE 0
        bigEndian == IF call.outEndian = "Big" THEN outcome.value ELSE Reverse(outcome.value)
    IN  /\ \A i \in 1 .. n :
             /\ outcome.value[i].id > 0
             /\ \E g \in 1 .. Len(gates) : gates[g] = rangeCheck8(outcome.value[i])
        /\ \A i \in 1 .. Len(message) :
             call.byteChecks <=> \E g \in 1 .. Len(gates) : gates[g] = rangeCheck8(message[i])
        /\ Len(RangeChecks(outcome.circuit)) = nIn + n
        /\ \A g \in 1 .. nIn : gates[g] = rangeCheck8(message[g])
        /\ \A g \in (nIn + 1) .. (Len(gates) - n) : gates[g].op = "assertEquals"
        /\ Len(gates) - n >= nIn + 25
        /\ \A k \in 1 .. n : gates[Len(gates) - n + k] = rangeCheck8(bigEndian[k])

\* C6 witness: a call without input checks, padded the legacy way, that returns
\* its 28 bytes in little-endian order.
C6_Witness ==
  /\ call.fn = "preNist"
  /\ outcome.status = "ok"
  /\ ~call.byteChecks
  /\ call.outEndian = "Little"
  /\ call.inpEndian = "Little"
  /\ Len(call.message) = 2
  /\ Len(outcome.value) = 28

RECURSIVE PermutedTimes(_, _, _)
PermutedTimes(state, rc, i) ==
  IF i = 0 THEN state ELSE permutation(PermutedTimes(state, rc, i - 1), rc)

\* Byte j (1-based) of the byte string of a state: byte z of lane (x, y) for
\* j - 1 = z + 8 * (5 * y + x).
StateByte(state, j) ==
  ByteOfWord(At(state, ((j - 1) \div 8) % 5, (j - 1) \div 40), (j - 1) % 8)

\* C8 as claimed: chunk 0 of the output of squeeze is the first rate/8 bytes of
\* the state, chunk i, for 1 <= i <= floor(length / rate), the first rate/8
\* bytes of the state permuted i times; the result is these chunks cut to
\* length/8 bytes, and squeeze calls the permutation floor(length / rate) times.
C8_SqueezeChunks ==
  (call.fn = "squeeze") =>
    LET bytesPerSqueeze == call.rate \div 8
        extra == call.length \div call.rate
    IN  /\ Len(outcome.value) = call.length \div 8
        /\ outcome.circuit.perms - call.circuit.perms = extra
        /\ \A i \in 0 .. extra : \A j \in 1 .. bytesPerSqueeze :
             (i * bytesPerSqueeze + j <= call.length \div 8) =>
               outcome.value[i * bytesPerSqueeze + j].val =
                 StateByte(PermutedTimes(call.state, advice, i), j)

\* Every gate of the circuit holds of the values the prover computed.
Satisfied(circuit) ==
  \A g \in 1 .. Len(circuit.gates) :
    IF circuit.gates[g].op = "assertEquals"
    THEN checkBytesToWord(circuit.gates[g].word, circuit.gates[g].bytes)
    ELSE circuit.gates[g].bytes[1].val \in 0 .. 255

\* The gates that tie the witnessed byte id to a lane.
Recompositions(circuit, id) ==
  {g \in 1 .. Len(circuit.gates) :
     /\ circuit.gates[g].op = "assertEquals"
     /\ \E k \in 1 .. Len(circuit.gates[g].bytes) : circuit.gates[g].bytes[k].id = id}

\* C9 as claimed: in a circuit whose constraints are all satisfied the 24
\* values witnessed for the round constants are ROUND_CONSTANTS, and each
\* byte witnessed by keccakStateToBytes is in exactly one recomposition
\* equality.
C9_WitnessesConstrained ==
  (call.fn \in {"nistSha3", "ethereum", "preNist"} /\ outcome.status = "ok"
     /\ Satisfied(outcome.circuit)) =>
    /\ outcome.circuit.rc = ROUND_CONSTANTS
    /\ \A id \in 1 .. outcome.circuit.witnesses :
         Cardinality(Recompositions(outcome.circuit, id)) = 1

\* The witnessed bytes a circuit range-checks.
RangeChecked(circuit) ==
  {circuit.gates[g].bytes[1].id :
     g \in {h \in 1 .. Len(circuit.gates) : circuit.gates[h].op = "rangeCheck8"}}

\* The witnessed bytes that share a recomposition equality with a returned byte.
OutputSiblings(circuit, value) ==
  UNION {{circuit.gates[g].bytes[k].id : k \in 1 .. Len(circuit.gates[g].bytes)} :
           g \in UNION {Recompositions(circuit, value[i].id) : i \in 1 .. Len(value)}}

\* C11 as claimed: for each of the output lengths 224, 256, 384 and 512, every
\* witnessed byte that is in a lane recomposition equality together with a
\* returned byte has a range check, so that no lane that contributes output
\* bytes has a sibling byte left without one.
C11_OutputLanesRangeChecked ==
  (call.fn \in {"nistSha3", "preNist", "ethereum"} /\ outcome.status = "ok") =>
    OutputSiblings(outcome.circuit, outcome.value) \subseteq RangeChecked(outcome.circuit)

\* C12 as claimed: after a call of hash, nistSha3, ethereum or preNist the
\* caller's array holds the same elements in the same order as before it, and
\* hashing that array again with the same arguments returns the same digest.
C12_CallerInputUnchanged ==
  (call.fn \in {"hash", "nistSha3", "ethereum", "preNist"}) =>
    /\ message = call.message
    /\ (call.fn = "hash" /\ outcome.status = "ok") =>
         Vals(hash(call.inpEndian, call.outEndian, call.byteChecks, message,
                   call.length, call.capacity, call.nistVersion, advice).value)
           = Vals(outcome.value)

====
